---------------------------- MODULE Spec2Model ----------------------------
(***************************************************************************)
(* Model of lib/services/ngsi/entities-NGSI-LD.js: the NGSI-LD response    *)
(* handler (generateNGSILDOperationHandler), the per-entity update         *)
(* sequence of sendUpdateValueNgsiLD (async.forEachSeries) and the query   *)
(* path sendQueryValueNgsiLD, with the broker alarm they share.            *)
(*                                                                         *)
(* Then the encoding: convertNGSIv2ToLD, formatAsNGSILD and the steps of    *)
(* sendUpdateValueNgsiLD that lead to its requests.                        *)
(*                                                                         *)
(* Six specifications over the same variables:                             *)
(*   Spec          concurrent update/query calls interleaving exchanges    *)
(*   SpecHandler   one exchange, every (error, response, body) input       *)
(*   SpecAlarm     a run of exchanges against the alarm                    *)
(*   SpecConvert   convertNGSIv2ToLD on one attribute                      *)
(*   SpecFormat    formatAsNGSILD on one entity                            *)
(*   SpecPipeline  one device: its update with its requests, its query     *)
(***************************************************************************)
EXTENDS Integers, Sequences, FiniteSets, TLC

VARIABLES alarm, calls, lastDecisive, hx, history, cv, up

vars == <<alarm, calls, lastDecisive, hx, history, cv, up>>

(***************************************************************************)
(* Bounds                                                                  *)
(***************************************************************************)
MaxEntities == 3

MaxHistory == 4

(***************************************************************************)
(* Values                                                                  *)
(***************************************************************************)
\* Strings whose content the code inspects are sequences of characters.
NoType == <<>>

DeviceTypes == {<<"S">>, <<"T", "S">>}

NoError == "none"

TransportErrors == {"ECONNREFUSED", "ETIMEDOUT"}

NoOrionError == "none"

OrionErrorDetails == {"d1", "d2"}

StatusCodes == {200, 204, 401, 403, 404, 500}

NoResponse == [present |-> FALSE, statusCode |-> 0]

Responses == {NoResponse} \cup {[present |-> TRUE, statusCode |-> s] : s \in StatusCodes}

\* The error field NGSIUtils.getErrorField extracts: its details and its code.
ErrorFields == [details : {<<>>, <<"S">>, <<"T">>, <<"T", "S">>}, code : {"404", "500"}]

NoErrorField == [details |-> <<>>, code |-> "500"]

\* body as the request library hands it over with json set: undefined (no
\* body), null, a string that is not JSON, a string that is JSON, an object.
Bodies ==
    {[kind |-> k, orionError |-> NoOrionError, errorField |-> NoErrorField] :
        k \in {"absent", "null"}}
    \cup [kind : {"text", "jsontext"}, orionError : {NoOrionError}, errorField : ErrorFields]
    \cup [kind : {"object"}, orionError : {NoOrionError} \cup OrionErrorDetails,
          errorField : ErrorFields]

Out(kind, detail) == [kind |-> kind, detail |-> detail]

NoOut == Out("none", "-")

Success == Out("ok", "-")

Thrown == Out("Thrown", "-")

(***************************************************************************)
(* alarms.raise / alarms.release on constants.ORION_ALARM                  *)
(***************************************************************************)
raise(a) == TRUE

release(a) == FALSE

(***************************************************************************)
(* generateNGSILDOperationHandler                                          *)
(***************************************************************************)
truthy(body) == body.kind \notin {"absent", "null"}

\* s.includes(t)
includes(s, t) ==
    \E i \in 1..(Len(s) + 1) :
        /\ i + Len(t) - 1 <= Len(s)
        /\ SubSeq(s, i, i + Len(t) - 1) = t

\* NGSIUtils.getErrorField(body): the error field it hands back, whatever the
\* body it is taken from.
getErrorField(body) == body.errorField

\* JSON.parse(body) of the last branch: FALSE when it throws.
jsonParses(body) == body.kind \in {"null", "jsontext"}

needsParse(body) == body.kind # "object"

isTransportError(error) == error # NoError

hasOrionError(body) == truthy(body) /\ body.orionError # NoOrionError

isUpdated(operationName, response) ==
    response.present /\ operationName = "update" /\ response.statusCode = 204

isQueried(operationName, response, body) ==
    /\ response.present
    /\ operationName = "query"
    /\ body.kind # "absent"
    /\ response.statusCode = 200

isQueryWithoutBody(operationName, response) ==
    response.present /\ operationName = "query" /\ response.statusCode = 204

isAccessForbidden_only403(response) ==
    response.present /\ response.statusCode = 403

isAccessForbidden(response) ==
    response.present /\ (response.statusCode = 403 \/ response.statusCode = 401)

isNotFound(response, body) ==
    response.present /\ truthy(body) /\ response.statusCode = 404

notFoundError_codeFirst(errorField, type) ==
    IF errorField.code = "404" THEN Out("AttributeNotFound", "-")
    ELSE IF includes(errorField.details, type) THEN Out("DeviceNotFound", "-")
    ELSE Out("EntityGenericError", "-")

notFoundError(errorField, type) ==
    IF includes(errorField.details, type) THEN Out("DeviceNotFound", "-")
    ELSE IF errorField.code = "404" THEN Out("AttributeNotFound", "-")
    ELSE Out("EntityGenericError", "-")

unknownError(response, body) ==
    IF needsParse(body) /\ ~jsonParses(body) THEN Thrown
    ELSE Out("EntityGenericError", "-")

\* The alarm call each branch makes.
alarmCall_neverReleased(out) ==
    IF out.kind = "TransportError" THEN "raise" ELSE "keep"

alarmCall_raiseLost(out) ==
    IF out.kind = "ok" THEN "release" ELSE "keep"

alarmCall_raisedOnFailure(out) ==
    IF out.kind = "ok" THEN "release" ELSE "raise"

alarmCall(out) ==
    CASE out.kind = "TransportError" -> "raise"
      [] out.kind = "ok" -> "release"
      [] OTHER -> "keep"

handlerOutcome_bodyBeforeError(operationName, type, error, response, body) ==
    IF hasOrionError(body) THEN Out("BadRequest", body.orionError)
    ELSE IF isTransportError(error) THEN Out("TransportError", error)
    ELSE IF isUpdated(operationName, response) THEN Success
    ELSE IF isQueried(operationName, response, body) THEN Success
    ELSE IF isQueryWithoutBody(operationName, response) THEN Out("BadAnswer", "-")
    ELSE IF isAccessForbidden(response) THEN Out("AccessForbidden", "-")
    ELSE IF isNotFound(response, body) THEN notFoundError(getErrorField(body), type)
    ELSE unknownError(response, body)

handlerOutcome_statusBeforeBody(operationName, type, error, response, body) ==
    IF isTransportError(error) THEN Out("TransportError", error)
    ELSE IF isUpdated(operationName, response) THEN Success
    ELSE IF isQueried(operationName, response, body) THEN Success
    ELSE IF hasOrionError(body) THEN Out("BadRequest", body.orionError)
    ELSE IF isQueryWithoutBody(operationName, response) THEN Out("BadAnswer", "-")
    ELSE IF isAccessForbidden(response) THEN Out("AccessForbidden", "-")
    ELSE IF isNotFound(response, body) THEN notFoundError(getErrorField(body), type)
    ELSE unknownError(response, body)

\* What the handler passes to its callback (Thrown: it passes nothing, an
\* exception leaves the handler).
handlerOutcome(operationName, type, error, response, body) ==
    IF isTransportError(error) THEN Out("TransportError", error)
    ELSE IF hasOrionError(body) THEN Out("BadRequest", body.orionError)
    ELSE IF isUpdated(operationName, response) THEN Success
    ELSE IF isQueried(operationName, response, body) THEN Success
    ELSE IF isQueryWithoutBody(operationName, response) THEN Out("BadAnswer", "-")
    ELSE IF isAccessForbidden(response) THEN Out("AccessForbidden", "-")
    ELSE IF isNotFound(response, body) THEN notFoundError(getErrorField(body), type)
    ELSE unknownError(response, body)

generateNGSILDOperationHandler(operationName, type, error, response, body) ==
    LET out == handlerOutcome(operationName, type, error, response, body)
    IN  [out |-> out, alarm |-> alarmCall(out)]

applyAlarm(call, a) ==
    CASE call = "raise" -> raise(a)
      [] call = "release" -> release(a)
      [] OTHER -> a

(***************************************************************************)
(* SpecHandler: one exchange, its inputs drawn in the initial state.       *)
(***************************************************************************)
\* The transport hands over an error, or a response with its body; a
\* response may come along with an error, never neither.
Exchanges ==
    {x \in [op : {"update", "query"}, type : DeviceTypes, error : {NoError} \cup TransportErrors,
            response : Responses, body : Bodies] :
        x.error = NoError => x.response.present}

\* cv, up: the probes of the conversion and of the update pipeline, unused
\* by the specifications of the exchanges.
NoProbe == [done |-> FALSE]

NoExchange ==
    [op |-> "none", type |-> NoType, error |-> NoError, response |-> NoResponse,
     body |-> [kind |-> "absent", orionError |-> NoOrionError, errorField |-> NoErrorField],
     alarmBefore |-> FALSE, handled |-> FALSE, out |-> NoOut]

Pending(x, a) ==
    [op |-> x.op, type |-> x.type, error |-> x.error, response |-> x.response,
     body |-> x.body, alarmBefore |-> a, handled |-> FALSE, out |-> NoOut]

NoCall ==
    [op |-> "none", pc |-> "idle", type |-> NoType, entities |-> <<>>, sent |-> <<>>,
     inflight |-> {}, outs |-> <<>>, result |-> NoOut, callbacks |-> 0]

Calls == {"c1", "c2"}

\* The last exchange that released or raised the alarm: whose it was, its kind.
NoDecisive == [call |-> "none", kind |-> "none"]

InitHandler ==
    /\ alarm \in BOOLEAN
    /\ hx \in {Pending(x, alarm) : x \in Exchanges}
    /\ calls = [c \in Calls |-> NoCall]
    /\ lastDecisive = NoDecisive
    /\ history = <<>>
    /\ cv = NoProbe
    /\ up = NoProbe

handle(operationName) ==
    /\ ~hx.handled
    /\ hx.op = operationName
    /\ LET h == generateNGSILDOperationHandler(hx.op, hx.type, hx.error, hx.response, hx.body)
       IN  /\ hx' = [hx EXCEPT !.handled = TRUE, !.out = h.out]
           /\ alarm' = applyAlarm(h.alarm, alarm)
    /\ UNCHANGED <<cv, up, calls, lastDecisive, history>>

handleUpdate == handle("update")

handleQuery == handle("query")

NextHandler == handleUpdate \/ handleQuery

SpecHandler == InitHandler /\ [][NextHandler]_vars

(***************************************************************************)
(* sendUpdateValueNgsiLD: the encoded entity list and async.forEachSeries  *)
(***************************************************************************)
\* An entity as formatAsNGSILD leaves it: its id and its keys ("@context",
\* "id", "type" and one key per attribute).
EnvelopeKeys == {"@context", "id", "type"}

KeySets == {EnvelopeKeys, EnvelopeKeys \cup {"a"}}

EntityLists ==
    UNION {{[i \in 1..n |-> [id |-> i, keys |-> f[i]]] : f \in [1..n -> KeySets]} :
           n \in 0..MaxEntities}

\* The answers the transport gives in the specifications of whole calls.
ObjectBody(orionError, details, code) ==
    [kind |-> "object", orionError |-> orionError,
     errorField |-> [details |-> details, code |-> code]]

PlainBody(kind) == [kind |-> kind, orionError |-> NoOrionError, errorField |-> NoErrorField]

Answer(error, response, body) == [error |-> error, response |-> response, body |-> body]

Status(s) == [present |-> TRUE, statusCode |-> s]

TransportAnswers ==
    {Answer(e, NoResponse, PlainBody("absent")) : e \in TransportErrors}
    \cup {Answer(NoError, Status(204), PlainBody("absent")),
          Answer(NoError, Status(200), PlainBody("absent")),
          Answer(NoError, Status(200), ObjectBody(NoOrionError, <<>>, "500")),
          Answer(NoError, Status(200), ObjectBody("d1", <<>>, "500")),
          Answer(NoError, Status(404), ObjectBody("d2", <<"S">>, "404")),
          Answer(NoError, Status(401), PlainBody("absent")),
          Answer(NoError, Status(403), ObjectBody(NoOrionError, <<>>, "500")),
          Answer(NoError, Status(404), ObjectBody(NoOrionError, <<"T", "S">>, "404")),
          Answer(NoError, Status(404), ObjectBody(NoOrionError, <<"T">>, "404")),
          Answer(NoError, Status(404), ObjectBody(NoOrionError, <<"T">>, "500")),
          Answer(NoError, Status(500), ObjectBody(NoOrionError, <<>>, "500")),
          Answer(NoError, Status(500), PlainBody("text")),
          Answer(NoError, Status(500), PlainBody("absent"))}

\* The steps of sendUpdateValueNgsiLD before the first exchange, by how they
\* end: the entity list, or the error the call ends with.
PipelineEnds == {"ok", "BadRequest", "MiddlewareError", "BadTimestamp", "BadGeocoordinates"}

\* Object.keys(entity).length <= 1 once id and type are deleted.
NoAttributesToUpdate_contextForgotten(entity) ==
    Cardinality(entity.keys \ {"id", "type"}) <= 0

NoAttributesToUpdate(entity) ==
    Cardinality(entity.keys \ {"id", "type"}) <= 1

\* The first entity from j on that the iteratee sends: the ones before it are
\* passed over with callback().
RECURSIVE nextToSend(_, _)
nextToSend(entities, j) ==
    IF j > Len(entities) THEN j
    ELSE IF NoAttributesToUpdate(entities[j]) THEN nextToSend(entities, j + 1)
    ELSE j

\* async.forEach in place of forEachSeries: the next two entities at once.
forEachSeries_twoAtOnce(entities, k, err) ==
    IF err # NoOut THEN [issue |-> <<>>, done |-> TRUE, error |-> err]
    ELSE LET j == nextToSend(entities, k + 1)
             l == nextToSend(entities, j + 1)
         IN  IF j > Len(entities) THEN [issue |-> <<>>, done |-> TRUE, error |-> NoOut]
             ELSE IF l > Len(entities) \/ k > 0
                  THEN [issue |-> <<j>>, done |-> FALSE, error |-> NoOut]
                  ELSE [issue |-> <<j, l>>, done |-> FALSE, error |-> NoOut]

\* async.forEachSeries once the iteratee of entity k (0: none yet) has called
\* back with err: the requests issued now, whether the final callback runs,
\* with what.
forEachSeries(entities, k, err) ==
    IF err # NoOut THEN [issue |-> <<>>, done |-> TRUE, error |-> err]
    ELSE LET j == nextToSend(entities, k + 1)
         IN  IF j > Len(entities) THEN [issue |-> <<>>, done |-> TRUE, error |-> NoOut]
             ELSE [issue |-> <<j>>, done |-> FALSE, error |-> NoOut]

Range(seq) == {seq[i] : i \in 1..Len(seq)}

\* The call once the series has taken the step s.
afterSeries(call, s) ==
    [call EXCEPT !.sent = call.sent \o s.issue,
                 !.inflight = call.inflight \cup Range(s.issue),
                 !.pc = IF s.done THEN "done" ELSE "waiting",
                 !.result = IF ~s.done THEN NoOut
                            ELSE IF s.error = NoOut THEN Success ELSE s.error,
                 !.callbacks = IF s.done THEN call.callbacks + 1 ELSE call.callbacks]

finished(call, out) ==
    [call EXCEPT !.pc = "done", !.result = out, !.callbacks = call.callbacks + 1]

decisive(c, out) ==
    IF out.kind \in {"ok", "TransportError"} THEN [call |-> c, kind |-> out.kind]
    ELSE lastDecisive

Init ==
    /\ alarm = FALSE
    /\ calls = [c \in Calls |-> NoCall]
    /\ lastDecisive = NoDecisive
    /\ hx = NoExchange
    /\ history = <<>>
    /\ cv = NoProbe
    /\ up = NoProbe

sendUpdateValueNgsiLD(c) ==
    /\ calls[c].pc = "idle"
    /\ \E type \in {NoType} \cup {<<"S">>}, pipeline \in PipelineEnds, entities \in EntityLists :
          LET call == [calls[c] EXCEPT !.op = "update", !.type = type]
          IN  calls' = [calls EXCEPT ![c] =
                  IF type = NoType THEN finished(call, Out("TypeNotFound", "-"))
                  ELSE IF pipeline # "ok" THEN finished(call, Out(pipeline, "-"))
                  ELSE afterSeries([call EXCEPT !.entities = entities],
                                   forEachSeries(entities, 0, NoOut))]
    /\ UNCHANGED <<cv, up, alarm, lastDecisive, hx, history>>

updateResponse(c) ==
    /\ calls[c].op = "update"
    /\ calls[c].pc = "waiting"
    /\ \E k \in calls[c].inflight, a \in TransportAnswers :
          LET call == calls[c]
              h == generateNGSILDOperationHandler("update", call.type, a.error, a.response, a.body)
              answered == [call EXCEPT !.inflight = call.inflight \ {k},
                                       !.outs = Append(call.outs, [idx |-> k, out |-> h.out])]
          IN  /\ alarm' = applyAlarm(h.alarm, alarm)
              /\ lastDecisive' = decisive(c, h.out)
              /\ calls' = [calls EXCEPT ![c] =
                     IF h.out = Thrown THEN [answered EXCEPT !.pc = "crashed"]
                     ELSE afterSeries(answered,
                              forEachSeries(call.entities, k,
                                            IF h.out = Success THEN NoOut ELSE h.out))]
    /\ UNCHANGED <<cv, up, hx, history>>

sendQueryValueNgsiLD(c) ==
    /\ calls[c].pc = "idle"
    /\ \E type \in {NoType} \cup {<<"S">>} :
          LET call == [calls[c] EXCEPT !.op = "query", !.type = type]
          IN  calls' = [calls EXCEPT ![c] =
                  IF type = NoType THEN finished(call, Out("TypeNotFound", "-"))
                  ELSE [call EXCEPT !.pc = "waiting", !.sent = <<1>>, !.inflight = {1}]]
    /\ UNCHANGED <<cv, up, alarm, lastDecisive, hx, history>>

queryResponse(c) ==
    /\ calls[c].op = "query"
    /\ calls[c].pc = "waiting"
    /\ \E k \in calls[c].inflight, a \in TransportAnswers, middleware \in {"ok", "MiddlewareError"} :
          LET call == calls[c]
              h == generateNGSILDOperationHandler("query", call.type, a.error, a.response, a.body)
              answered == [call EXCEPT !.inflight = call.inflight \ {k},
                                       !.outs = Append(call.outs, [idx |-> k, out |-> h.out])]
          IN  /\ alarm' = applyAlarm(h.alarm, alarm)
              /\ lastDecisive' = decisive(c, h.out)
              /\ calls' = [calls EXCEPT ![c] =
                     IF h.out = Thrown THEN [answered EXCEPT !.pc = "crashed"]
                     ELSE IF h.out # Success THEN finished(answered, h.out)
                     ELSE IF middleware = "ok" THEN finished(answered, Success)
                     ELSE finished(answered, Out(middleware, "-"))]
    /\ UNCHANGED <<cv, up, hx, history>>

Next ==
    \E c \in Calls :
        \/ sendUpdateValueNgsiLD(c)
        \/ updateResponse(c)
        \/ sendQueryValueNgsiLD(c)
        \/ queryResponse(c)

Spec == Init /\ [][Next]_vars

(***************************************************************************)
(* SpecAlarm: exchanges one after the other against the alarm.             *)
(***************************************************************************)
InitAlarm ==
    /\ alarm = FALSE
    /\ calls = [c \in Calls |-> NoCall]
    /\ lastDecisive = NoDecisive
    /\ hx = NoExchange
    /\ history = <<>>
    /\ cv = NoProbe
    /\ up = NoProbe

exchange(operationName) ==
    /\ Len(history) < MaxHistory
    /\ \E a \in TransportAnswers, type \in DeviceTypes :
          LET h == generateNGSILDOperationHandler(operationName, type, a.error, a.response, a.body)
          IN  /\ alarm' = applyAlarm(h.alarm, alarm)
              /\ history' = Append(history, h.out.kind)
    /\ UNCHANGED <<cv, up, calls, lastDecisive, hx>>

updateExchange == exchange("update")

queryExchange == exchange("query")

NextAlarm == updateExchange \/ queryExchange

SpecAlarm == InitAlarm /\ [][NextAlarm]_vars

(***************************************************************************)
(* Properties                                                              *)
(***************************************************************************)
UpdateCalls == {c \in Calls : calls[c].op = "update"}

Increasing(seq) == \A p, q \in 1..Len(seq) : p < q => seq[p] < seq[q]

IsPrefix(s, t) == Len(s) <= Len(t) /\ SubSeq(t, 1, Len(s)) = s

\* The entities that keep an attribute next to the envelope keys, in order.
WithAttributes(entities) ==
    SelectSeq([i \in 1..Len(entities) |-> i],
              LAMBDA i : entities[i].keys \ EnvelopeKeys # {})

AllSucceeded(call) == \A i \in 1..Len(call.outs) : call.outs[i].out = Success

\* C1: in sendUpdateValue, once the exchange of entity k has ended in anything
\* but success, that exchange is the last one issued, nothing is in flight,
\* the call has returned exactly the error of entity k, and no earlier entity
\* was sent a second time.
C1_FailureEndsTheCall ==
    \A c \in UpdateCalls :
        \A i \in 1..Len(calls[c].outs) :
            calls[c].outs[i].out # Success =>
                /\ i = Len(calls[c].outs)
                /\ calls[c].sent[Len(calls[c].sent)] = calls[c].outs[i].idx
                /\ calls[c].inflight = {}
                /\ Increasing(calls[c].sent)
                /\ calls[c].pc = "done"
                /\ calls[c].result = calls[c].outs[i].out

\* C2: within one sendUpdateValue call the requests go out in the order of
\* the entity list, at most one is in flight, and a request is issued only
\* once every earlier one has been answered and classified.
C2_OneAtATimeInOrder ==
    \A c \in UpdateCalls :
        /\ Cardinality(calls[c].inflight) <= 1
        /\ Increasing(calls[c].sent)
        /\ Len(calls[c].sent) = Len(calls[c].outs) + Cardinality(calls[c].inflight)
        /\ \A i \in 1..Len(calls[c].outs) : calls[c].outs[i].idx = calls[c].sent[i]
        /\ \A k \in calls[c].inflight : k = calls[c].sent[Len(calls[c].sent)]

C2_Witness ==
    /\ calls["c1"].op = "update" /\ calls["c2"].op = "update"
    /\ Len(calls["c1"].sent) >= 2 /\ calls["c1"].inflight # {}
    /\ Len(calls["c2"].sent) >= 2 /\ calls["c2"].inflight # {}

\* C3: while no exchange of a sendUpdateValue call has failed, the requests
\* issued are those of the entities that keep an attribute, one each and in
\* order; when the call ends in success every such entity was sent and no
\* empty one was; a call whose entities are all empty ends in success with no
\* exchange.
C3_OneExchangePerNonEmptyEntity ==
    \A c \in UpdateCalls :
        LET call == calls[c]
            encoded == call.result.kind \notin ({"TypeNotFound"} \cup PipelineEnds)
        IN  /\ AllSucceeded(call) => IsPrefix(call.sent, WithAttributes(call.entities))
            /\ (call.pc = "done" /\ call.result = Success) =>
                   /\ call.sent = WithAttributes(call.entities)
                   /\ Len(call.outs) = Len(call.sent)
            /\ (encoded /\ WithAttributes(call.entities) = <<>>) =>
                   call.pc = "done" /\ call.result = Success /\ call.sent = <<>>

C3_Witness ==
    /\ calls["c1"].op = "update" /\ calls["c1"].pc = "done" /\ calls["c1"].result = Success
    /\ Len(calls["c1"].entities) = 3
    /\ calls["c1"].entities[2].keys = EnvelopeKeys
    /\ calls["c1"].sent = <<1, 3>>
    /\ calls["c2"].op = "update" /\ calls["c2"].pc = "done" /\ calls["c2"].result = Success
    /\ Len(calls["c2"].entities) >= 2
    /\ calls["c2"].sent = <<>>

\* C4: an exchange that ends in anything but success leaves a raised alarm
\* raised, and an exchange that ends in success leaves the alarm released,
\* whatever came before it.
C4_AlarmLatch ==
    [][Len(history') = Len(history) + 1 =>
          LET kind == history'[Len(history')]
          IN  /\ (kind # "ok" /\ alarm) => alarm'
              /\ (kind = "ok") => ~alarm']_vars

C4_Witness ==
    /\ Len(history) = 4
    /\ history[1] = "TransportError"
    /\ history[2] \notin {"ok", "TransportError"}
    /\ history[3] \notin {"ok", "TransportError"}
    /\ history[4] = "ok"
    /\ ~alarm

\* C5: an exchange for which the transport reports an error ends in that
\* error with the alarm raised, whatever the response and the body hold.
C5_TransportErrorFirst ==
    (hx.handled /\ hx.error # NoError) =>
        hx.out = Out("TransportError", hx.error) /\ alarm

C5_Witness ==
    /\ hx.handled /\ hx.error = "ETIMEDOUT"
    /\ hx.response.present /\ hx.response.statusCode = 204
    /\ hx.body.orionError # NoOrionError
    /\ ~hx.alarmBefore
    /\ hx.out = Out("TransportError", "ETIMEDOUT") /\ alarm

C7_BrokerRejection ==
    (hx.handled /\ hx.error = NoError /\ hx.body.orionError # NoOrionError) =>
        hx.out = Out("BadRequest", hx.body.orionError) /\ alarm = hx.alarmBefore

C7_Witness ==
    /\ hx.handled /\ hx.error = NoError /\ hx.op = "update"
    /\ hx.response.statusCode = 204
    /\ hx.body.orionError = "d2"
    /\ hx.out = Out("BadRequest", "d2")
    /\ hx.alarmBefore /\ alarm

\* C8: a query answered with a success status (200 or 204) and no body ends
\* in BadAnswer.
C8_QueryWithoutBodyIsBadAnswer ==
    (/\ hx.handled /\ hx.op = "query" /\ hx.error = NoError
     /\ hx.response.statusCode \in {200, 204}
     /\ hx.body.kind = "absent") =>
        hx.out.kind = "BadAnswer"

\* C9 as claimed: every response with status 401 or 403 ends in
\* AccessForbidden.
C9_Original ==
    (hx.handled /\ hx.error = NoError /\ hx.response.statusCode \in {401, 403}) =>
        hx.out.kind = "AccessForbidden"

\* C9: every response with status 401 or 403 whose body carries no orionError
\* ends in AccessForbidden, query or update, with or without a body.
C9_AccessForbidden ==
    (/\ hx.handled /\ hx.error = NoError
     /\ hx.response.statusCode \in {401, 403}
     /\ hx.body.orionError = NoOrionError) =>
        hx.out.kind = "AccessForbidden"

C9_Witness ==
    /\ hx.handled /\ hx.error = NoError /\ hx.op = "query"
    /\ hx.response.statusCode = 401
    /\ hx.body.kind = "object"
    /\ hx.out.kind = "AccessForbidden"

NotFoundKind(x) ==
    IF includes(x.body.errorField.details, x.type) THEN "DeviceNotFound"
    ELSE IF x.body.errorField.code = "404" THEN "AttributeNotFound"
    ELSE "EntityGenericError"

\* C10 as claimed: every 404 response with a body ends in DeviceNotFound,
\* AttributeNotFound or EntityGenericError, in that order of precedence.
C10_Original ==
    (/\ hx.handled /\ hx.error = NoError
     /\ hx.response.statusCode = 404
     /\ hx.body.kind \notin {"absent", "null"}) =>
        hx.out.kind = NotFoundKind(hx)

\* C10: a 404 response with a body that carries no orionError ends in
\* DeviceNotFound when the error detail contains the device type, else in
\* AttributeNotFound when the error code is "404", else in EntityGenericError.
C10_NotFound ==
    (/\ hx.handled /\ hx.error = NoError
     /\ hx.response.statusCode = 404
     /\ hx.body.kind \notin {"absent", "null"}
     /\ hx.body.orionError = NoOrionError) =>
        hx.out.kind = NotFoundKind(hx)

C10_Witness ==
    /\ hx.handled /\ hx.error = NoError
    /\ hx.response.statusCode = 404
    /\ hx.body.kind = "object" /\ hx.body.orionError = NoOrionError
    /\ hx.type = <<"T", "S">>
    /\ hx.body.errorField = [details |-> <<"T", "S">>, code |-> "404"]
    /\ hx.out.kind = "DeviceNotFound"

\* The rows of the classification table other than the last, read off the
\* exchange itself.
MatchesARow(x) ==
    \/ x.error # NoError
    \/ x.body.orionError # NoOrionError
    \/ x.op = "update" /\ x.response.statusCode = 204
    \/ x.op = "query" /\ x.response.statusCode \in {200, 204}
    \/ x.response.statusCode \in {401, 403}
    \/ x.response.statusCode = 404 /\ x.body.kind \notin {"absent", "null"}

\* C11: every response that matches no other row of the classification table
\* (an update answered 200, a 404 without body, a 500 with a non-JSON or an
\* absent body) ends in EntityGenericError.
C11_UnrecognizedIsGenericError ==
    (hx.handled /\ ~MatchesARow(hx)) => hx.out.kind = "EntityGenericError"

(***************************************************************************)
(* Values of attributes, as JavaScript holds them: a tag t and a content v *)
(***************************************************************************)
MaxChars == 3

MaxGeoChars == 5

MaxItems == 3

Str(chars) == [t |-> "str", v |-> chars]

Null == [t |-> "null", v |-> <<>>]

Undefined == [t |-> "undefined", v |-> <<>>]

NaN == [t |-> "nan", v |-> <<>>]

Bool(b) == [t |-> "bool", v |-> b]

Arr(items) == [t |-> "arr", v |-> items]

RECURSIVE stripZeros(_)
stripZeros(frac) ==
    IF frac # <<>> /\ frac[Len(frac)] = "0" THEN stripZeros(SubSeq(frac, 1, Len(frac) - 1))
    ELSE frac

\* A number: sign, integer part, decimals without trailing zeros (-0 is 0).
Number(neg, int, frac) ==
    LET f == stripZeros(frac)
    IN  [t |-> "num", v |-> [neg |-> neg /\ ~(int = 0 /\ f = <<>>), int |-> int, frac |-> f]]

Zero == Number(FALSE, 0, <<>>)

Digits == {"0", "1", "2"}

DigitValue(c) == CASE c = "0" -> 0 [] c = "1" -> 1 [] c = "2" -> 2

RECURSIVE decimal(_)
decimal(ds) ==
    IF ds = <<>> THEN 0
    ELSE decimal(SubSeq(ds, 1, Len(ds) - 1)) * 10 + DigitValue(ds[Len(ds)])

\* The length of the run of digits of s that starts at position i.
RECURSIVE digitRun(_, _)
digitRun(s, i) ==
    IF i <= Len(s) /\ s[i] \in Digits THEN 1 + digitRun(s, i + 1) ELSE 0

\* Number.parseInt of a string: sign, then the longest run of digits.
parseIntString(s) ==
    LET neg == s # <<>> /\ s[1] = "-"
        from == IF neg THEN 2 ELSE 1
        n == digitRun(s, from)
    IN  IF n = 0 THEN NaN
        ELSE Number(neg, decimal(SubSeq(s, from, from + n - 1)), <<>>)

\* Number.parseFloat of a string: sign, digits, then "." and digits; one of
\* the two runs of digits has to be there.
parseFloatString(s) ==
    LET neg == s # <<>> /\ s[1] = "-"
        from == IF neg THEN 2 ELSE 1
        n == digitRun(s, from)
        dot == from + n <= Len(s) /\ s[from + n] = "."
        m == IF dot THEN digitRun(s, from + n + 1) ELSE 0
    IN  IF n = 0 /\ m = 0 THEN NaN
        ELSE Number(neg, decimal(SubSeq(s, from, from + n - 1)),
                    SubSeq(s, from + n + 1, from + n + m))

parseInt(value) ==
    CASE value.t = "str" -> parseIntString(value.v)
      [] value.t = "num" -> Number(value.v.neg, value.v.int, <<>>)
      [] OTHER -> NaN

parseFloat(value) ==
    CASE value.t = "str" -> parseFloatString(value.v)
      [] value.t = "num" -> value
      [] OTHER -> NaN

isNaN(value) == value.t = "nan"

valueOfOrDefault_noDefault(value, defaultValue) == value

valueOfOrDefault(value, defaultValue) ==
    IF isNaN(value) THEN defaultValue ELSE value

\* The whole of s is the text of a number.
isNumeric(s) ==
    LET from == IF s # <<>> /\ s[1] = "-" THEN 2 ELSE 1
        n == digitRun(s, from)
        dot == from + n <= Len(s) /\ s[from + n] = "."
        m == IF dot THEN digitRun(s, from + n + 1) ELSE 0
    IN  (n > 0 \/ m > 0) /\ from + n + (IF dot THEN 1 + m ELSE 0) = Len(s) + 1

\* NGSIUtils.isFloat(value): a number written with a decimal point.
isFloat(value) ==
    CASE value.t = "str" -> isNumeric(value.v) /\ "." \in {value.v[i] : i \in 1..Len(value.v)}
      [] value.t = "num" -> value.v.frac # <<>>
      [] OTHER -> FALSE

(***************************************************************************)
(* splitLngLat, getLngLats                                                 *)
(***************************************************************************)
Chars(value) == {value.v[i] : i \in 1..Len(value.v)}

RECURSIVE firstComma(_, _)
firstComma(s, i) ==
    IF i > Len(s) THEN 0 ELSE IF s[i] = "," THEN i ELSE firstComma(s, i + 1)

\* s.split(',')
RECURSIVE split(_)
split(s) ==
    LET i == firstComma(s, 1)
    IN  IF i = 0 THEN <<s>>
        ELSE <<SubSeq(s, 1, i - 1)>> \o split(SubSeq(s, i + 1, Len(s)))

\* forEach is there on what split returns and on an array, on nothing else.
hasForEach(value) == value.t \in {"str", "arr"}

RECURSIVE splitLngLat(_)
splitLngLat(value) ==
    LET lngLats == IF value.t = "str"
                   THEN [i \in 1..Len(split(value.v)) |-> Str(split(value.v)[i])]
                   ELSE value.v
    IN  Arr([i \in 1..Len(lngLats) |->
                IF lngLats[i].t = "arr" THEN splitLngLat(lngLats[i])
                ELSE IF lngLats[i].t = "str" /\ "," \in Chars(lngLats[i])
                     THEN splitLngLat(lngLats[i])
                ELSE parseFloat(lngLats[i])])

\* _.flatten
RECURSIVE flatten(_)
flatten(items) ==
    IF items = <<>> THEN <<>>
    ELSE (IF items[1].t = "arr" THEN flatten(items[1].v) ELSE <<items[1]>>)
         \o flatten(Tail(items))

pairs(flat) ==
    [i \in 1..(Len(flat) \div 2) |-> Arr(<<flat[2 * i - 1], flat[2 * i]>>)]

\* The coordinates, or thrown when the value cannot be iterated or its flat
\* list has an odd length.
getLngLats(value) ==
    IF ~hasForEach(value) THEN [thrown |-> TRUE, v |-> Undefined]
    ELSE LET lngLats == flatten(splitLngLat(value).v)
         IN  IF Len(lngLats) = 2 THEN [thrown |-> FALSE, v |-> Arr(lngLats)]
             ELSE IF Len(lngLats) % 2 # 0 THEN [thrown |-> TRUE, v |-> Undefined]
             ELSE [thrown |-> FALSE, v |-> Arr(pairs(lngLats))]

(***************************************************************************)
(* convertNGSIv2ToLD                                                       *)
(***************************************************************************)
NoTypeName == "<undefined>"

\* type.toLowerCase() on the type names of the model.
toLowerCase(type) ==
    CASE type = "Float" -> "float"
      [] type = "Integer" -> "integer"
      [] type = "Number" -> "number"
      [] type = "Point" -> "point"
      [] type = "geo:Point" -> "geo:point"
      [] type = "LineString" -> "linestring"
      [] type = "MultiLineString" -> "multilinestring"
      [] OTHER -> type

\* The values the conversion builds around the raw value.
Typed(atType, atValue) == [t |-> "typed", v |-> [atType |-> atType, atValue |-> atValue]]

Moment(format, value) == [t |-> "moment", v |-> [format |-> format, of |-> value]]

GeoJSON(type, coordinates) == [t |-> "geojson", v |-> [type |-> type, coordinates |-> coordinates]]

\* constants.ATTRIBUTE_DEFAULT, constants.DATETIME_DEFAULT
ATTRIBUTE_DEFAULT == Str(<<" ">>)

DATETIME_DEFAULT == Str(<<"1970-01-01T00:00:00.000Z">>)

ValidTimestamps == {Str(<<"2015-08-05T07:35:01.468Z">>)}

\* moment(timestamp).isValid()
isValidMoment(timestamp) == timestamp \in ValidTimestamps

GeoTypes ==
    [geoproperty |-> "Point", point |-> "Point", linestring |-> "LineString",
     polygon |-> "Polygon", multipoint |-> "MultiPoint",
     multilinestring |-> "MultiLineString", multipolygon |-> "MultiPolygon"]

\* The name of a geometry type without its geo: alias, "" for any other type.
geometryOf(lower) ==
    CASE lower \in {"geoproperty", "point", "linestring", "polygon", "multipoint",
                    "multilinestring", "multipolygon"} -> lower
      [] lower = "geo:point" -> "point"
      [] lower = "geo:linestring" -> "linestring"
      [] lower = "geo:polygon" -> "polygon"
      [] lower = "geo:multipoint" -> "multipoint"
      [] lower = "geo:multilinestring" -> "multilinestring"
      [] lower = "geo:multipolygon" -> "multipolygon"
      [] OTHER -> ""

\* The geometry types whose coordinates go through getLngLats.
usesGetLngLats(geometry) == geometry \notin {"multilinestring", "multipolygon"}

LD(type, value, object) ==
    [thrown |-> FALSE, type |-> type, value |-> value, object |-> object,
     observedAt |-> Undefined, unitCode |-> Undefined, nested |-> <<>>, kept |-> {}]

ThrownLD ==
    [thrown |-> TRUE, type |-> "", value |-> Undefined, object |-> Undefined,
     observedAt |-> Undefined, unitCode |-> Undefined, nested |-> <<>>, kept |-> {}]

\* The switch on attr.type.toLowerCase(): the attribute without its metadata.
convertValue(attr) ==
    IF attr.type = NoTypeName THEN ThrownLD
    ELSE LET lower == toLowerCase(attr.type)
             geometry == geometryOf(lower)
         IN  CASE lower \in {"property", "string"} -> LD("Property", attr.value, Undefined)
               [] lower = "boolean" ->
                    LD("Property",
                       Bool(attr.value \notin {Null, Undefined, NaN, Bool(FALSE), Str(<<>>), Zero}),
                       Undefined)
               [] lower = "float" ->
                    LD("Property", valueOfOrDefault(parseFloat(attr.value), Zero), Undefined)
               [] lower = "integer" ->
                    LD("Property", valueOfOrDefault(parseInt(attr.value), Zero), Undefined)
               [] lower = "number" ->
                    IF isFloat(attr.value)
                    THEN LD("Property", valueOfOrDefault(parseFloat(attr.value), Zero), Undefined)
                    ELSE LD("Property", valueOfOrDefault(parseInt(attr.value), Zero), Undefined)
               [] lower = "datetime" ->
                    LD("Property", Typed("DateTime", Moment("ISO", attr.value)), Undefined)
               [] lower = "date" ->
                    LD("Property", Typed("Date", Moment("DATE", attr.value)), Undefined)
               [] lower = "time" ->
                    LD("Property", Typed("Time", Moment("TIME_SECONDS", attr.value)), Undefined)
               [] geometry # "" /\ usesGetLngLats(geometry) ->
                    LET c == getLngLats(attr.value)
                    IN  IF c.thrown THEN ThrownLD
                        ELSE LD("GeoProperty", GeoJSON(GeoTypes[geometry], c.v), Undefined)
               [] geometry # "" /\ ~usesGetLngLats(geometry) ->
                    LD("GeoProperty", GeoJSON(GeoTypes[geometry], attr.value), Undefined)
               [] lower = "relationship" -> LD("Relationship", Undefined, attr.value)
               [] OTHER -> LD("Property", Typed(attr.type, attr.value), Undefined)

TIMESTAMP_ATTRIBUTE == "TimeInstant"

observedAtOf(timestamp) ==
    IF timestamp = ATTRIBUTE_DEFAULT \/ ~isValidMoment(timestamp) THEN DATETIME_DEFAULT
    ELSE Moment("ISO", timestamp)

\* The metadata keys that become a nested attribute.
nestedKeys(metadata) == DOMAIN metadata \ {TIMESTAMP_ATTRIBUTE, "unitCode"}

\* copiesAttr: the converted attribute starts as a copy of attr, so that the
\* keys of attr next to value, type and metadata stay on it.
convertNGSIv2ToLD_copiesAttr(attr) ==
    LET obj == convertValue(attr)
        metadata == attr.metadata
        nested == [key \in nestedKeys(metadata) |-> convertValue(metadata[key])]
    IN  IF obj.thrown \/ \E key \in DOMAIN nested : nested[key].thrown THEN ThrownLD
        ELSE [obj EXCEPT
                !.observedAt = IF TIMESTAMP_ATTRIBUTE \in DOMAIN metadata
                               THEN observedAtOf(metadata[TIMESTAMP_ATTRIBUTE].value)
                               ELSE Undefined,
                !.unitCode = IF "unitCode" \in DOMAIN metadata
                             THEN metadata["unitCode"].value ELSE Undefined,
                !.nested = nested,
                !.kept = attr.internal]

\* convertNGSIv2ToLD(attr), attr.metadata a function of its keys (none: no
\* metadata); a metadata entry has no metadata of its own. kept: the keys of
\* attr next to value, type and metadata that are on the result.
convertNGSIv2ToLD(attr) ==
    LET obj == convertValue(attr)
        metadata == attr.metadata
        nested == [key \in nestedKeys(metadata) |-> convertValue(metadata[key])]
    IN  IF obj.thrown \/ \E key \in DOMAIN nested : nested[key].thrown THEN ThrownLD
        ELSE [obj EXCEPT
                !.observedAt = IF TIMESTAMP_ATTRIBUTE \in DOMAIN metadata
                               THEN observedAtOf(metadata[TIMESTAMP_ATTRIBUTE].value)
                               ELSE Undefined,
                !.unitCode = IF "unitCode" \in DOMAIN metadata
                             THEN metadata["unitCode"].value ELSE Undefined,
                !.nested = nested]

(***************************************************************************)
(* formatAsNGSILD                                                          *)
(***************************************************************************)
\* An identifier is a sequence of pieces of text; NGSI_LD_URN is two of them.
NGSI_LD_URN == <<"urn:", "ngsi-ld:">>

startsWith(s, prefix) == Len(s) >= Len(prefix) /\ SubSeq(s, 1, Len(prefix)) = prefix

ldId_alwaysPrefixed(type, id) == NGSI_LD_URN \o <<type, ":">> \o id

\* obj.id of formatAsNGSILD.
ldId(type, id) ==
    IF startsWith(id, NGSI_LD_URN) THEN id ELSE NGSI_LD_URN \o <<type, ":">> \o id

\* An entity json: id, type and attrs, the function of its other keys.
Entity(id, type, attrs) == [id |-> id, type |-> type, attrs |-> attrs]

formatAsNGSILD_keepsTimestamp(json) ==
    LET attrs == [key \in DOMAIN json.attrs |-> convertNGSIv2ToLD(json.attrs[key])]
    IN  [thrown |-> \E key \in DOMAIN attrs : attrs[key].thrown,
         context |-> TRUE, id |-> ldId(json.type, json.id), type |-> json.type,
         attrs |-> attrs]

\* The envelope of an entity: @context, the id as a URN, the type, and every
\* other key but the timestamp converted. thrown: a conversion has thrown.
formatAsNGSILD(json) ==
    LET attrs == [key \in DOMAIN json.attrs \ {TIMESTAMP_ATTRIBUTE} |->
                     convertNGSIv2ToLD(json.attrs[key])]
    IN  [thrown |-> \E key \in DOMAIN attrs : attrs[key].thrown,
         context |-> TRUE, id |-> ldId(json.type, json.id), type |-> json.type,
         attrs |-> attrs]

(***************************************************************************)
(* SpecConvert: convertNGSIv2ToLD on one attribute, every type and value.  *)
(***************************************************************************)
Strings(alphabet, n) == UNION {[1..k -> alphabet] : k \in 0..n}

TypeNames ==
    {"property", "string", "boolean", "float", "Float", "integer", "Integer",
     "number", "Number", "datetime", "date", "time", "geoproperty",
     "point", "Point", "geo:point", "geo:Point", "linestring", "LineString",
     "geo:linestring", "polygon", "geo:polygon", "multipoint", "geo:multipoint",
     "multilinestring", "MultiLineString", "geo:multilinestring",
     "multipolygon", "geo:multipolygon", "relationship", "custom", NoTypeName}

NumChars == {"0", "2", ".", "-", "a"}

GeoChars == {"1", "2", ","}

One == Number(FALSE, 1, <<>>)

Values ==
    {Str(s) : s \in Strings(NumChars, MaxChars)}
    \cup {Str(s) : s \in Strings(GeoChars, MaxGeoChars)}
    \cup {Arr(items) : items \in Strings({One, Str(<<"1", ",", "2">>), Arr(<<One, One>>)}, MaxItems)}
    \cup {Null, Undefined, NaN, Bool(TRUE), Bool(FALSE), Zero, Number(TRUE, 2, <<"2">>)}

NoMetadata == <<>>

Attr(type, value, metadata) ==
    [type |-> type, value |-> value, metadata |-> metadata, internal |-> {}]

Metadatas ==
    {[TimeInstant |-> Attr("DateTime", t, NoMetadata)] :
        t \in ValidTimestamps \cup {ATTRIBUTE_DEFAULT, Str(<<"a">>)}}
    \cup {[unitCode |-> Attr("Text", Str(<<"2">>), NoMetadata)],
          [accuracy |-> Attr("Float", Str(<<"0", ".", "2">>), NoMetadata)],
          [accuracy |-> Attr(NoTypeName, Str(<<"2">>), NoMetadata)],
          [TimeInstant |-> Attr("DateTime", Str(<<"a">>), NoMetadata),
           accuracy |-> Attr("point", Str(<<"1", ",", "2">>), NoMetadata)]}

Attrs ==
    {Attr(type, value, NoMetadata) : type \in TypeNames, value \in Values}
    \cup {Attr(type, value, metadata) :
            type \in {"float", "point", NoTypeName},
            value \in {Str(<<"2">>), Str(<<"1", ",", "2">>), Str(<<"1", ",", "2", ",", "1">>)},
            metadata \in Metadatas}

InitConvert ==
    /\ alarm = FALSE
    /\ calls = [c \in Calls |-> NoCall]
    /\ lastDecisive = NoDecisive
    /\ hx = NoExchange
    /\ history = <<>>
    /\ cv \in {[attr |-> attr, done |-> FALSE, obj |-> ThrownLD] : attr \in Attrs}
    /\ up = NoProbe

convert ==
    /\ ~cv.done
    /\ cv' = [cv EXCEPT !.done = TRUE, !.obj = convertNGSIv2ToLD(cv.attr)]
    /\ UNCHANGED <<alarm, calls, lastDecisive, hx, history, up>>

NextConvert == convert

SpecConvert == InitConvert /\ [][NextConvert]_vars

(***************************************************************************)
(* SpecFormat: formatAsNGSILD on one entity, and on its own result.        *)
(***************************************************************************)
MaxIdLen == 3

Ids == Strings({"urn:", "ngsi-ld:", "s1"}, MaxIdLen) \ {<<>>}

EntityTypes == {"T", "urn:"}

Now == Str(<<"2015-08-05T07:35:01.468Z">>)

Stamp == Attr("DateTime", Now, NoMetadata)

EntityAttrs ==
    {<<>>,
     [t |-> Attr("float", Str(<<"2", ".", "2">>), NoMetadata)],
     [TimeInstant |-> Stamp],
     [t |-> Attr("float", Str(<<"2">>), [TimeInstant |-> Stamp]), TimeInstant |-> Stamp],
     [t |-> Attr("point", Str(<<"1", ",", "2", ",", "1">>), NoMetadata), TimeInstant |-> Stamp]}

InitFormat ==
    /\ alarm = FALSE
    /\ calls = [c \in Calls |-> NoCall]
    /\ lastDecisive = NoDecisive
    /\ hx = NoExchange
    /\ history = <<>>
    /\ cv \in {[json |-> Entity(id, type, attrs), done |-> FALSE, times |-> 0,
                obj |-> Entity(id, type, <<>>)] :
                  id \in Ids, type \in EntityTypes, attrs \in EntityAttrs}
    /\ up = NoProbe

\* formatAsNGSILD on the entity.
formatEntity ==
    /\ ~cv.done
    /\ cv' = [cv EXCEPT !.done = TRUE, !.times = 1, !.obj = formatAsNGSILD(cv.json)]
    /\ UNCHANGED <<alarm, calls, lastDecisive, hx, history, up>>

\* formatAsNGSILD on the entity under the id it was given the first time.
formatAgain ==
    /\ cv.done /\ cv.times = 1
    /\ cv' = [cv EXCEPT !.times = 2,
                        !.obj = formatAsNGSILD([cv.json EXCEPT !.id = cv.obj.id])]
    /\ UNCHANGED <<alarm, calls, lastDecisive, hx, history, up>>

NextFormat == formatEntity \/ formatAgain

SpecFormat == InitFormat /\ [][NextFormat]_vars


(***************************************************************************)
(* sendUpdateValueNgsiLD up to its requests, sendQueryValueNgsiLD up to    *)
(* its request                                                             *)
(***************************************************************************)
NoName == "<undefined>"

InternalKeys == {"object_id", "multi"}

\* attributes[i].name && attributes[i].type
hasNameAndType(attribute) == attribute.name # NoName /\ attribute.type # NoTypeName

\* onlyFirst: the loop stops after its first attribute.
malformed_onlyFirst(attributes) ==
    attributes # <<>> /\ ~hasNameAndType(attributes[1])

\* The loop over attributes ends in BadRequest.
malformed(attributes) ==
    \E i \in 1..Len(attributes) : ~hasNameAndType(attributes[i])

\* NGSIUtils.getMetaData: the metadata of the attribute.
getMetaData(typeInformation, name, metadata) == metadata

\* payload[attributes[i].name] = {value, type, metadata}, i from first to
\* last: the last attribute of a name is the one under that name.
payloadAttrs(attributes, typeInformation) ==
    LET names == {attributes[i].name : i \in 1..Len(attributes)}
        last(name) == CHOOSE i \in 1..Len(attributes) :
                         /\ attributes[i].name = name
                         /\ \A j \in 1..Len(attributes) : attributes[j].name = name => j <= i
    IN  [name \in names |->
            Attr(attributes[last(name)].type, attributes[last(name)].value,
                 getMetaData(typeInformation, name, attributes[last(name)].metadata))]

\* NGSIUtils.castJsonNativeAttributes with autocast off.
castJsonNativeAttributes(payload) == payload

\* utils.isTimestampedNgsi2 of one entity
isTimestampedNgsi2(json) == TIMESTAMP_ATTRIBUTE \in DOMAIN json.attrs

\* utils.IsValidTimestampedNgsi2 of one entity
IsValidTimestampedNgsi2(json) == isValidMoment(json.attrs[TIMESTAMP_ATTRIBUTE].value)

\* NGSIv2.addTimestamp on one entity: the timestamp as an attribute of the
\* entity and as metadata of each attribute that has none.
addTimestamp(json) ==
    [json EXCEPT !.attrs =
        [key \in DOMAIN json.attrs \cup {TIMESTAMP_ATTRIBUTE} |->
            IF key = TIMESTAMP_ATTRIBUTE THEN Stamp
            ELSE IF TIMESTAMP_ATTRIBUTE \in DOMAIN json.attrs[key].metadata
                 THEN json.attrs[key]
            ELSE [json.attrs[key] EXCEPT !.metadata =
                    [k \in DOMAIN json.attrs[key].metadata \cup {TIMESTAMP_ATTRIBUTE} |->
                        IF k = TIMESTAMP_ATTRIBUTE THEN Stamp
                        ELSE json.attrs[key].metadata[k]]]]]

\* What NGSIUtils.applyMiddlewares gives for the payload: an error, nothing,
\* the payload as an object, or an array of entities (the payload and one
\* more entity, or an entity of one attribute and the attributes of the
\* payload moved to a second one); middleware.internal are the keys it
\* leaves on attributes.
withInternal(attrs, internal) ==
    [key \in DOMAIN attrs |-> [attrs[key] EXCEPT !.internal = internal]]

Middlewares ==
    {[kind |-> "error", internal |-> {}], [kind |-> "none", internal |-> {}],
     [kind |-> "moved", internal |-> {}]}
    \cup {[kind |-> kind, internal |-> internal] :
            kind \in {"object", "array"}, internal \in {{}, InternalKeys}}

\* result instanceof Array
isArray(middleware) == middleware.kind \in {"array", "moved"}

OtherEntityId == <<"s2">>

applyMiddlewares(middleware, payload) ==
    CASE middleware.kind = "object" ->
            <<[payload EXCEPT !.attrs = withInternal(payload.attrs, middleware.internal)]>>
      [] middleware.kind = "array" ->
            <<[payload EXCEPT !.attrs = withInternal(payload.attrs, middleware.internal)],
              Entity(OtherEntityId, payload.type, <<>>)>>
      [] middleware.kind = "moved" ->
            <<[payload EXCEPT !.attrs = [t |-> Attr("float", Str(<<"2">>), NoMetadata)]],
              Entity(OtherEntityId, payload.type, payload.attrs)>>
      [] OTHER -> <<payload>>

\* The timestamp policy on the result of the middlewares.
mistimed(entities) ==
    /\ \A i \in 1..Len(entities) : isTimestampedNgsi2(entities[i])
    /\ \E i \in 1..Len(entities) : ~IsValidTimestampedNgsi2(entities[i])

timestamped(entities) ==
    IF \A i \in 1..Len(entities) : isTimestampedNgsi2(entities[i]) THEN entities
    ELSE [i \in 1..Len(entities) |->
            IF isTimestampedNgsi2(entities[i]) THEN entities[i] ELSE addTimestamp(entities[i])]

\* The purge of object_id and multi: json.length is a number on an array only.
purge(entities, hasLength) ==
    IF hasLength
    THEN [i \in 1..Len(entities) |->
            [entities[i] EXCEPT !.attrs = withInternal(entities[i].attrs, {})]]
    ELSE entities

Failed(kind) == [error |-> kind, requests |-> <<>>]

\* The requests of forEachSeries when every exchange succeeds: the entities
\* with an attribute, each under its own id.
requestsOf(entities) ==
    LET sent == SelectSeq([i \in 1..Len(entities) |-> i],
                          LAMBDA i : ~NoAttributesToUpdate(
                                        [keys |-> {"@context"} \cup DOMAIN entities[i].attrs]))
    IN  [n \in 1..Len(sent) |->
            [id |-> entities[sent[n]].id, json |-> entities[sent[n]].attrs]]

\* oneByOne: each entity is formatted when its turn in the series comes, so
\* that the entities before the one that throws have been sent.
encoded_oneByOne(ld) ==
    IF \E i \in 1..Len(ld) : ld[i].thrown
    THEN LET first == CHOOSE i \in 1..Len(ld) :
                         ld[i].thrown /\ \A j \in 1..(i - 1) : ~ld[j].thrown
         IN  [error |-> "BadGeocoordinates", requests |-> requestsOf(SubSeq(ld, 1, first - 1))]
    ELSE [error |-> "none", requests |-> requestsOf(ld)]

\* Lines 524-539: every entity is formatted before the series starts; one
\* that throws ends the call with BadGeocoordinates and no request.
encoded(ld) ==
    IF \E i \in 1..Len(ld) : ld[i].thrown THEN Failed("BadGeocoordinates")
    ELSE [error |-> "none", requests |-> requestsOf(ld)]

\* The payload of lines 422-441.
payloadOf(entityId, attributes, typeInformation) ==
    castJsonNativeAttributes(Entity(entityId, typeInformation.type,
                                    payloadAttrs(attributes, typeInformation)))

\* The json the callback of the waterfall works with: the result of the
\* middlewares (the payload when there is none) after the timestamp policy
\* and the purge.
jsonOf(result, middleware, typeInformation) ==
    purge(IF middleware.kind # "none" /\ typeInformation.timestamp
          THEN timestamped(result) ELSE result,
          isArray(middleware))

\* Lines 524-531: formatAsNGSILD on each entity of an array, on the one
\* entity under the id and the type of the device otherwise.
ldOf(json, middleware, entityId, typeInformation) ==
    [i \in 1..Len(json) |->
        formatAsNGSILD(IF isArray(middleware) THEN json[i]
                       ELSE [json[i] EXCEPT !.id = entityId,
                                            !.type = typeInformation.type])]

\* sendQueryValueNgsiLD to its request: the error it ends with, or the id
\* in the url of the request.
queryRequest(entityName, typeInformation) ==
    IF typeInformation.type = NoTypeName THEN [error |-> "TypeNotFound", id |-> <<>>]
    ELSE [error |-> "none", id |-> NGSI_LD_URN \o <<typeInformation.type, ":">> \o entityName]

(***************************************************************************)
(* SpecPipeline: one device, its update and its query up to the requests.  *)
(***************************************************************************)
MaxAttributes == 2

Attribute(name, type, value, metadata) ==
    [name |-> name, type |-> type, value |-> value, metadata |-> metadata]

Odd == Str(<<"1", ",", "2", ",", "1">>)

DeviceAttributes ==
    {Attribute("t", "float", Str(<<"2">>), NoMetadata),
     Attribute("t", "float", Str(<<"0">>), NoMetadata),
     Attribute("p", "point", Odd, NoMetadata),
     Attribute("p", "geo:multilinestring", Odd, NoMetadata),
     Attribute("p", "linestring", Str(<<"1", ",", "2">>), NoMetadata),
     Attribute(NoName, "float", Str(<<"2">>), NoMetadata),
     Attribute("t", NoTypeName, Str(<<"2">>), NoMetadata),
     Attribute(TIMESTAMP_ATTRIBUTE, "DateTime", Now, NoMetadata),
     Attribute(TIMESTAMP_ATTRIBUTE, "DateTime", Str(<<"a">>), NoMetadata),
     Attribute("u", "custom", Str(<<"2">>),
               [accuracy |-> Attr(NoTypeName, Str(<<"2">>), NoMetadata)])}

TypeInformations == [type : {"T", NoTypeName}, timestamp : BOOLEAN]

EntityIds == {<<"s1">>, <<"urn:", "s1">>, <<"urn:", "ngsi-ld:", "T", ":", "s1">>}

NoRequests == [error |-> "pending", requests |-> <<>>]

InWaterfall == [error |-> "waterfall", requests |-> <<>>]

NoRequest == [error |-> "pending", id |-> <<>>]

NoMiddleware == [kind |-> "pending", internal |-> {}]

NoPayload == Entity(<<>>, NoTypeName, <<>>)

\* What the caller has got once the steps before the series are over: the
\* error, success when there is nothing to send, nothing yet otherwise.
resultOf(requests) ==
    IF requests.error = "none"
    THEN IF requests.requests = <<>> THEN Success ELSE NoOut
    ELSE IF requests.error = "waterfall" THEN NoOut
    ELSE Out(requests.error, "-")

InitPipeline ==
    /\ alarm \in BOOLEAN
    /\ calls = [c \in Calls |-> NoCall]
    /\ lastDecisive = NoDecisive
    /\ hx = NoExchange
    /\ history = <<>>
    /\ cv = NoProbe
    /\ up \in {[typeInformation |-> typeInformation, entityId |-> entityId,
                attributes |-> attributes, payload |-> NoPayload,
                middleware |-> NoMiddleware,
                update |-> NoRequests, query |-> NoRequest,
                alarmBefore |-> alarm, sent |-> 0, result |-> NoOut] :
                  typeInformation \in TypeInformations, entityId \in EntityIds,
                  attributes \in Strings(DeviceAttributes, MaxAttributes)}

\* sendUpdateValueNgsiLD up to async.waterfall: TypeNotFound, BadRequest, or
\* the payload handed to the middlewares.
update ==
    /\ up.update = NoRequests
    /\ up' = IF up.typeInformation.type = NoTypeName
             THEN [up EXCEPT !.update = Failed("TypeNotFound"),
                             !.result = resultOf(Failed("TypeNotFound"))]
             ELSE IF malformed(up.attributes)
                  THEN [up EXCEPT !.update = Failed("BadRequest"),
                                  !.result = resultOf(Failed("BadRequest"))]
             ELSE [up EXCEPT !.payload = payloadOf(up.entityId, up.attributes,
                                                   up.typeInformation),
                             !.update = InWaterfall]
    /\ UNCHANGED <<alarm, calls, lastDecisive, hx, history, cv>>

\* The callback of the waterfall, to the point where it hands its entities
\* to forEachSeries: the error it ends with, or the requests it will make.
waterfall ==
    /\ up.update = InWaterfall
    /\ \E middleware \in Middlewares :
         \E result \in {applyMiddlewares(middleware, up.payload)} :
           \E json \in {jsonOf(result, middleware, up.typeInformation)} :
             \E ld \in {ldOf(json, middleware, up.entityId, up.typeInformation)} :
               \E requests \in
                    {IF middleware.kind = "error" THEN Failed("MiddlewareError")
                     ELSE IF /\ middleware.kind # "none"
                             /\ up.typeInformation.timestamp
                             /\ mistimed(result)
                          THEN Failed("BadTimestamp")
                     ELSE encoded(ld)} :
                 up' = [up EXCEPT !.middleware = middleware,
                                  !.update = requests,
                                  !.result = resultOf(requests)]
    /\ UNCHANGED <<alarm, calls, lastDecisive, hx, history, cv>>

\* The next request of forEachSeries and its answer through the handler:
\* the series goes on after a success and ends the call on anything else.
patch ==
    /\ up.update.error = "none"
    /\ up.result = NoOut
    /\ up.sent < Len(up.update.requests)
    /\ \E a \in TransportAnswers :
          LET h == generateNGSILDOperationHandler("update", <<up.typeInformation.type>>,
                                                  a.error, a.response, a.body)
          IN  /\ alarm' = applyAlarm(h.alarm, alarm)
              /\ up' = [up EXCEPT
                          !.sent = up.sent + 1,
                          !.result = IF h.out # Success THEN h.out
                                     ELSE IF up.sent + 1 = Len(up.update.requests)
                                          THEN Success
                                     ELSE NoOut]
    /\ UNCHANGED <<calls, lastDecisive, hx, history, cv>>

query ==
    /\ up.query = NoRequest
    /\ up' = [up EXCEPT !.query = queryRequest(up.entityId, up.typeInformation)]
    /\ UNCHANGED <<alarm, calls, lastDecisive, hx, history, cv>>

NextPipeline == update \/ waterfall \/ patch \/ query

SpecPipeline == InitPipeline /\ [][NextPipeline]_vars


(***************************************************************************)
(* Properties of the conversion and of the requests                        *)
(***************************************************************************)
\* C12: no request body of sendUpdateValue carries object_id or multi on an
\* attribute, whether the middlewares gave an object or an array.
C12_NoInternalKeyOnTheWire ==
    \A n \in 1..Len(up.update.requests) :
        \A key \in DOMAIN up.update.requests[n].json :
            up.update.requests[n].json[key].kept \cap InternalKeys = {}

C12_Witness ==
    /\ up.update.error = "none"
    /\ up.middleware = [kind |-> "object", internal |-> InternalKeys]
    /\ Len(up.update.requests) = 1
    /\ "t" \in DOMAIN up.update.requests[1].json
    /\ up.update.requests[1].json["t"].kept = {}

\* The value an attribute of the device has once converted on its own.
ConvertedAlone(attribute) ==
    convertValue(Attr(attribute.type, attribute.value, NoMetadata)).value

Represented(attribute) ==
    \E n \in 1..Len(up.update.requests) :
        \E key \in DOMAIN up.update.requests[n].json :
            up.update.requests[n].json[key].value = ConvertedAlone(attribute)

\* C13: when two attributes of one update have the same name, the requests
\* sent carry the value of each of them.
C13_SameNameBothSent ==
    up.update.error = "none" =>
        \A i, j \in 1..Len(up.attributes) :
            (/\ i < j
             /\ up.attributes[i].name = up.attributes[j].name
             /\ up.attributes[i].name # TIMESTAMP_ATTRIBUTE) =>
                Represented(up.attributes[i]) /\ Represented(up.attributes[j])

\* C14: no request body of an update has TimeInstant among its root keys,
\* whether the device gave the timestamp or the timestamp policy added it.
C14_NoRootTimestamp ==
    \A n \in 1..Len(up.update.requests) :
        TIMESTAMP_ATTRIBUTE \notin DOMAIN up.update.requests[n].json

C14_Witness ==
    /\ up.update.error = "none"
    /\ up.typeInformation.timestamp
    /\ up.middleware.kind = "object"
    /\ up.attributes = <<Attribute("t", "float", Str(<<"2">>), NoMetadata)>>
    /\ Len(up.update.requests) = 1
    /\ DOMAIN up.update.requests[1].json = {"t"}
    /\ up.update.requests[1].json["t"].observedAt = Moment("ISO", Now)

UrnShaped(id) == Len(id) >= 2 /\ id[1] = "urn:" /\ id[2] = "ngsi-ld:"

\* C15: formatAsNGSILD gives an id that starts with urn:ngsi-ld: unchanged and
\* any other id behind urn:ngsi-ld:<type>: ; formatting the entity again under
\* its new id gives the same id.
C15_IdAsUrn ==
    cv.done =>
        /\ cv.obj.id = IF UrnShaped(cv.json.id) THEN cv.json.id
                       ELSE <<"urn:", "ngsi-ld:", cv.json.type, ":">> \o cv.json.id
        /\ UrnShaped(cv.obj.id)

C15_Witness ==
    /\ cv.done /\ cv.times = 2
    /\ cv.json.id = <<"s1">> /\ cv.json.type = "T"
    /\ cv.obj.id = <<"urn:", "ngsi-ld:", "T", ":", "s1">>

PointTypeNames == {"point", "Point", "geo:point", "geo:Point"}

\* C16: a point given as "lat,lng" is encoded with its two numbers swapped.
C16_PointLongitudeFirst ==
    (/\ cv.done
     /\ cv.attr.type \in PointTypeNames
     /\ cv.attr.metadata = NoMetadata
     /\ cv.attr.value.t = "str"
     /\ Len(split(cv.attr.value.v)) = 2
     /\ \A i \in 1..2 : ~isNaN(parseFloatString(split(cv.attr.value.v)[i]))) =>
        /\ ~cv.obj.thrown
        /\ cv.obj.value =
             GeoJSON("Point", Arr(<<parseFloatString(split(cv.attr.value.v)[2]),
                                    parseFloatString(split(cv.attr.value.v)[1])>>))

GeometryTypeNames ==
    {"point", "linestring", "polygon", "multipoint", "multilinestring", "multipolygon",
     "geo:point", "geo:linestring", "geo:polygon", "geo:multipoint",
     "geo:multilinestring", "geo:multipolygon"}

OddCoordinates(value) ==
    hasForEach(value) /\ Len(flatten(splitLngLat(value).v)) % 2 = 1

DistinctNames(attributes) ==
    \A i, j \in 1..Len(attributes) : attributes[i].name = attributes[j].name => i = j

\* C17: an update that gets as far as encoding an attribute of a geometry type
\* whose flat list of coordinates has an odd length ends with
\* BadGeocoordinates.
C17_OddCoordinatesRejected ==
    (/\ up.update.error \notin {"pending", "waterfall", "TypeNotFound", "BadRequest",
                                "MiddlewareError", "BadTimestamp"}
     /\ DistinctNames(up.attributes)
     /\ \E i \in 1..Len(up.attributes) :
           /\ up.attributes[i].type \in GeometryTypeNames
           /\ OddCoordinates(up.attributes[i].value)) =>
        up.update.error = "BadGeocoordinates"

LacksNameOrType(attribute) == attribute.name = NoName \/ attribute.type = NoTypeName

\* C18 as stated: an update with an attribute that lacks its name or its
\* type ends with BadRequest.
C18_Original ==
    (/\ up.update \notin {NoRequests, InWaterfall}
     /\ \E i \in 1..Len(up.attributes) : LacksNameOrType(up.attributes[i])) =>
        up.update.error = "BadRequest"

\* C18: for a device whose type information has a type, an update with an
\* attribute that lacks its name or its type ends with BadRequest, wherever
\* the attribute is in the list.
C18_MalformedAttribute ==
    (/\ up.update \notin {NoRequests, InWaterfall}
     /\ up.typeInformation.type # NoTypeName
     /\ \E i \in 1..Len(up.attributes) : LacksNameOrType(up.attributes[i])) =>
        up.update.error = "BadRequest"

C18_Witness ==
    /\ up.typeInformation.type = "T"
    /\ up.attributes = <<Attribute("t", "float", Str(<<"2">>), NoMetadata),
                         Attribute(NoName, "float", Str(<<"2">>), NoMetadata)>>
    /\ up.update.error = "BadRequest"

NumericTypeNames == {"float", "Float", "integer", "Integer", "number", "Number"}

C20_SameUrnForQueryAndUpdate ==
    (/\ up.update.error = "none" /\ up.query.error = "none"
     /\ up.middleware.kind \in {"none", "object"}
     /\ Len(up.update.requests) = 1) =>
        up.update.requests[1].id = up.query.id

(***************************************************************************)
(* Properties of whole calls                                               *)
(***************************************************************************)
\* C21: a call never ends without having called the callback of its caller
\* (no exception leaves a handler with the callback uncalled), never calls
\* it twice, and is done exactly when it has called it once.
C21_CallbackExactlyOnce ==
    \A c \in Calls :
        /\ calls[c].pc # "crashed"
        /\ calls[c].callbacks <= 1
        /\ (calls[c].pc = "done") = (calls[c].callbacks = 1)

ValidationErrors == {"TypeNotFound", "BadRequest", "BadTimestamp", "BadGeocoordinates"}

\* C22: an update that ends with TypeNotFound, BadRequest, BadTimestamp or
\* BadGeocoordinates has no request to make, has made none, and has left the
\* alarm as it was when the call began.
C22_ValidatedBeforeTheFirstExchange ==
    up.update.error \in ValidationErrors =>
        /\ up.update.requests = <<>>
        /\ up.sent = 0
        /\ up.result = Out(up.update.error, "-")
        /\ alarm = up.alarmBefore

\* The first entity of the array is well formed, the second one is not.
C22_Witness ==
    /\ up.middleware.kind = "moved"
    /\ up.attributes = <<Attribute("p", "point", Odd, NoMetadata)>>
    /\ up.update = Failed("BadGeocoordinates")
    /\ up.sent = 0
    /\ alarm /\ up.alarmBefore

\* The outcome the step has added to the exchanges of call c, if any.
Answered(c, old, new) == Len(new[c].outs) = Len(old[c].outs) + 1

\* C23: the alarm changes only in a step that ends an exchange in a transport
\* error, which raises it, or in success, which releases it; an exchange
\* that ends in anything else, and a step that ends no exchange (entities
\* without attributes passed over, calls ended before any request), leave
\* the alarm as it was.
C23_AlarmFrame ==
    [][/\ alarm' # alarm =>
            \E c \in Calls :
                /\ Answered(c, calls, calls')
                /\ LET kind == calls'[c].outs[Len(calls'[c].outs)].out.kind
                   IN  \/ kind = "TransportError" /\ alarm'
                       \/ kind = "ok" /\ ~alarm'
       /\ \A c \in Calls :
            (/\ Answered(c, calls, calls')
             /\ calls'[c].outs[Len(calls'[c].outs)].out.kind \notin {"TransportError", "ok"}) =>
                alarm' = alarm
       /\ (\A c \in Calls : ~Answered(c, calls, calls')) => alarm' = alarm]_vars

C23_Witness ==
    /\ calls["c1"].op = "update" /\ calls["c1"].pc = "done"
    /\ Len(calls["c1"].entities) = 2
    /\ calls["c1"].entities[1].keys = EnvelopeKeys
    /\ calls["c1"].sent = <<2>>
    /\ calls["c1"].result.kind = "AccessForbidden"
    /\ lastDecisive = [call |-> "c2", kind |-> "TransportError"]
    /\ alarm

\* C24: an update ends with BadGeocoordinates only when one of its
\* attributes has a geometry type and a flat list of coordinates of odd
\* length.
C24_BadGeocoordinatesOnlyForGeometry ==
    up.update.error = "BadGeocoordinates" =>
        \E i \in 1..Len(up.attributes) :
            /\ up.attributes[i].type \in GeometryTypeNames
            /\ OddCoordinates(up.attributes[i].value)

=============================================================================
